---- MODULE Spec2Model ----
(***************************************************************************)
(* Model of object_detection/utils/motion_util.py (Motion R-CNN): the      *)
(* rotation composition euler_to_rot, the detection and camera motion      *)
(* losses and the pinhole back-projection get_3D_coords.                   *)
(*                                                                         *)
(* Numbers.  A float is modelled as a fixed-point integer counting         *)
(* 1/Unit-ths, so Unit is 1.0 and 300 is 0.6.  Unit is a multiple of 5^3,  *)
(* which makes every product of three values out of {0, 3/5, 4/5, 1}       *)
(* exact.  A product of two numbers is rounded to the nearest 1/Unit, a    *)
(* dot product is rounded once.  tf.sin, tf.cos and tf.acos are tabulated, *)
(* rounded to the nearest 1/Unit.  NaN is a value of its own; it arises    *)
(* only from the square root of a negative number.                         *)
(*                                                                         *)
(* Tensors.  A tensor of rank r is a sequence of tensors of rank r-1; a    *)
(* tensor of rank 0 is a number.  Axes are counted from 0 as in the code.  *)
(***************************************************************************)
EXTENDS Integers, Sequences, FiniteSets, TLC

VARIABLES op, args, ret

vars == <<op, args, ret>>

(***************************************************************************)
(* Bounds of the model.                                                    *)
(***************************************************************************)
\* largest N of euler_to_rot's (N,) inputs and of _motion_losses' rows
MaxN == 2

\* largest batch_size and num_anchors of motion_loss
MaxBatch == 2

MaxAnchors == 2

\* largest number, height and width of get_3D_coords' depth maps
MaxNum == 2

MaxHeight == 2

MaxWidth == 2

(***************************************************************************)
(* Fixed-point arithmetic.                                                 *)
(***************************************************************************)
Unit == 4 * 5 * 5 * 5

NaN == 0 - 1000 * Unit

Abs(a) == IF a < 0 THEN 0 - a ELSE a

\* n / d rounded to the nearest integer (d > 0)
RoundDiv(n, d) == (2 * n + d) \div (2 * d)

Mul(a, b) == RoundDiv(a * b, Unit)

Div(a, b) == IF b > 0 THEN RoundDiv(a * Unit, b) ELSE 0 - RoundDiv(a * Unit, 0 - b)

Square(a) == Mul(a, a)

\* largest r in lo..hi with r * r <= n, by bisection (lo * lo <= n)
RECURSIVE ISqrtIn(_, _, _)
ISqrtIn(n, lo, hi) ==
  IF lo >= hi THEN lo
  ELSE LET mid == (lo + hi + 1) \div 2
       IN  IF mid * mid <= n THEN ISqrtIn(n, mid, hi) ELSE ISqrtIn(n, lo, mid - 1)

\* largest r >= 0 with r * r <= n
ISqrt(n) == ISqrtIn(n, 0, IF n < 40000 THEN n ELSE 40000)

\* the square root of n >= 0 rounded to the nearest integer
RoundSqrt(n) == LET r == ISqrt(n) IN IF n - r * r > r THEN r + 1 ELSE r

\* Sqrt with its argument clamped non-negative first
SqrtClamped(a) == RoundSqrt((IF a < 0 THEN 0 ELSE a) * Unit)

\* tf.sqrt: the square root of a negative number is NaN
Sqrt(a) == IF a < 0 THEN NaN ELSE RoundSqrt(a * Unit)

\* tf.sin and tf.cos of the angles the model draws (radians, in 1/Unit)
SinTable ==
  (0 :> 0) @@ (300 :> 282) @@ (400 :> 359) @@ (500 :> 421) @@ (600 :> 466)
  @@ (785 :> 500) @@ (1000 :> 455) @@ (1571 :> 0)

CosTable ==
  (0 :> 500) @@ (300 :> 413) @@ (400 :> 348) @@ (500 :> 270) @@ (600 :> 181)
  @@ (785 :> 0) @@ (1000 :> (0 - 208)) @@ (1571 :> (0 - 500))

Sin(a) == IF a < 0 THEN 0 - SinTable[0 - a] ELSE SinTable[a]

Cos(a) == CosTable[Abs(a)]

\* tf.acos on [-1, 1]: entry c + Unit + 1 is acos(c / Unit) in 1/Unit radians
ACosTable ==
  <<
     1571, 1539, 1526, 1516, 1508, 1500, 1493, 1487, 1481, 1476, 1471, 1466, 1461, 1457, 1452, 1448, 1444, 1440, 1436, 1433,
     1429, 1425, 1422, 1419, 1415, 1412, 1409, 1406, 1403, 1400, 1397, 1394, 1391, 1388, 1385, 1383, 1380, 1377, 1375, 1372,
     1369, 1367, 1364, 1362, 1359, 1357, 1355, 1352, 1350, 1348, 1345, 1343, 1341, 1338, 1336, 1334, 1332, 1330, 1328, 1325,
     1323, 1321, 1319, 1317, 1315, 1313, 1311, 1309, 1307, 1305, 1303, 1301, 1299, 1297, 1295, 1293, 1291, 1290, 1288, 1286,
     1284, 1282, 1280, 1279, 1277, 1275, 1273, 1271, 1270, 1268, 1266, 1264, 1263, 1261, 1259, 1257, 1256, 1254, 1252, 1251,
     1249, 1247, 1246, 1244, 1242, 1241, 1239, 1238, 1236, 1234, 1233, 1231, 1230, 1228, 1226, 1225, 1223, 1222, 1220, 1219,
     1217, 1216, 1214, 1212, 1211, 1209, 1208, 1206, 1205, 1203, 1202, 1200, 1199, 1197, 1196, 1195, 1193, 1192, 1190, 1189,
     1187, 1186, 1184, 1183, 1182, 1180, 1179, 1177, 1176, 1174, 1173, 1172, 1170, 1169, 1168, 1166, 1165, 1163, 1162, 1161,
     1159, 1158, 1157, 1155, 1154, 1153, 1151, 1150, 1148, 1147, 1146, 1144, 1143, 1142, 1141, 1139, 1138, 1137, 1135, 1134,
     1133, 1131, 1130, 1129, 1127, 1126, 1125, 1124, 1122, 1121, 1120, 1118, 1117, 1116, 1115, 1113, 1112, 1111, 1110, 1108,
     1107, 1106, 1105, 1103, 1102, 1101, 1100, 1098, 1097, 1096, 1095, 1094, 1092, 1091, 1090, 1089, 1087, 1086, 1085, 1084,
     1083, 1081, 1080, 1079, 1078, 1077, 1075, 1074, 1073, 1072, 1071, 1069, 1068, 1067, 1066, 1065, 1064, 1062, 1061, 1060,
     1059, 1058, 1056, 1055, 1054, 1053, 1052, 1051, 1050, 1048, 1047, 1046, 1045, 1044, 1043, 1041, 1040, 1039, 1038, 1037,
     1036, 1035, 1033, 1032, 1031, 1030, 1029, 1028, 1027, 1026, 1024, 1023, 1022, 1021, 1020, 1019, 1018, 1017, 1015, 1014,
     1013, 1012, 1011, 1010, 1009, 1008, 1007, 1005, 1004, 1003, 1002, 1001, 1000, 999, 998, 997, 996, 994, 993, 992,
     991, 990, 989, 988, 987, 986, 985, 984, 982, 981, 980, 979, 978, 977, 976, 975, 974, 973, 972, 971,
     970, 968, 967, 966, 965, 964, 963, 962, 961, 960, 959, 958, 957, 956, 955, 954, 952, 951, 950, 949,
     948, 947, 946, 945, 944, 943, 942, 941, 940, 939, 938, 937, 936, 935, 934, 933, 931, 930, 929, 928,
     927, 926, 925, 924, 923, 922, 921, 920, 919, 918, 917, 916, 915, 914, 913, 912, 911, 910, 909, 908,
     907, 906, 905, 903, 902, 901, 900, 899, 898, 897, 896, 895, 894, 893, 892, 891, 890, 889, 888, 887,
     886, 885, 884, 883, 882, 881, 880, 879, 878, 877, 876, 875, 874, 873, 872, 871, 870, 869, 868, 867,
     866, 865, 864, 863, 862, 861, 860, 859, 858, 857, 856, 855, 854, 853, 852, 851, 850, 849, 848, 847,
     846, 845, 844, 843, 842, 841, 840, 838, 837, 836, 835, 834, 833, 832, 831, 830, 829, 828, 827, 826,
     825, 824, 823, 822, 821, 820, 819, 818, 817, 816, 815, 814, 813, 812, 811, 810, 809, 808, 807, 806,
     805, 804, 803, 802, 801, 800, 799, 798, 797, 796, 795, 794, 793, 792, 791, 790, 789, 788, 787, 786,
     785, 784, 783, 782, 781, 780, 779, 778, 777, 776, 775, 774, 773, 772, 771, 770, 769, 768, 767, 766,
     765, 764, 763, 762, 761, 760, 759, 758, 757, 756, 755, 754, 753, 752, 751, 750, 749, 748, 747, 746,
     745, 744, 743, 742, 741, 740, 739, 738, 737, 736, 735, 734, 733, 732, 731, 730, 729, 728, 727, 726,
     725, 724, 723, 722, 721, 720, 719, 718, 717, 716, 715, 714, 713, 712, 711, 710, 709, 708, 707, 706,
     705, 704, 703, 702, 701, 700, 699, 698, 697, 696, 695, 694, 693, 692, 691, 690, 689, 688, 687, 686,
     685, 684, 683, 682, 681, 680, 679, 678, 677, 676, 674, 673, 672, 671, 670, 669, 668, 667, 666, 665,
     664, 663, 662, 661, 660, 659, 658, 657, 656, 655, 654, 653, 652, 651, 650, 649, 648, 647, 646, 645,
     644, 642, 641, 640, 639, 638, 637, 636, 635, 634, 633, 632, 631, 630, 629, 628, 627, 626, 625, 624,
     623, 621, 620, 619, 618, 617, 616, 615, 614, 613, 612, 611, 610, 609, 608, 607, 606, 604, 603, 602,
     601, 600, 599, 598, 597, 596, 595, 594, 593, 592, 591, 589, 588, 587, 586, 585, 584, 583, 582, 581,
     580, 579, 577, 576, 575, 574, 573, 572, 571, 570, 569, 568, 566, 565, 564, 563, 562, 561, 560, 559,
     558, 556, 555, 554, 553, 552, 551, 550, 549, 548, 546, 545, 544, 543, 542, 541, 540, 538, 537, 536,
     535, 534, 533, 532, 530, 529, 528, 527, 526, 525, 524, 522, 521, 520, 519, 518, 517, 515, 514, 513,
     512, 511, 510, 508, 507, 506, 505, 504, 503, 501, 500, 499, 498, 497, 495, 494, 493, 492, 491, 489,
     488, 487, 486, 485, 483, 482, 481, 480, 478, 477, 476, 475, 474, 472, 471, 470, 469, 467, 466, 465,
     464, 462, 461, 460, 459, 457, 456, 455, 454, 452, 451, 450, 448, 447, 446, 445, 443, 442, 441, 439,
     438, 437, 436, 434, 433, 432, 430, 429, 428, 426, 425, 424, 422, 421, 420, 418, 417, 416, 414, 413,
     412, 410, 409, 407, 406, 405, 403, 402, 400, 399, 398, 396, 395, 393, 392, 391, 389, 388, 386, 385,
     383, 382, 381, 379, 378, 376, 375, 373, 372, 370, 369, 367, 366, 364, 363, 361, 360, 358, 357, 355,
     354, 352, 351, 349, 348, 346, 344, 343, 341, 340, 338, 336, 335, 333, 332, 330, 328, 327, 325, 323,
     322, 320, 318, 317, 315, 313, 312, 310, 308, 306, 305, 303, 301, 299, 298, 296, 294, 292, 290, 289,
     287, 285, 283, 281, 279, 277, 276, 274, 272, 270, 268, 266, 264, 262, 260, 258, 256, 254, 252, 250,
     247, 245, 243, 241, 239, 237, 235, 232, 230, 228, 226, 223, 221, 219, 216, 214, 211, 209, 206, 204,
     201, 199, 196, 194, 191, 188, 185, 183, 180, 177, 174, 171, 168, 165, 162, 159, 156, 152, 149, 145,
     142, 138, 135, 131, 127, 123, 119, 114, 110, 105, 100, 95, 90, 84, 78, 71, 63, 55, 45, 32,
     0
  >>

ACos(c) == ACosTable[c + Unit + 1]

\* tf.clip_by_value
ClipByValue(a, lo, hi) == IF a < lo THEN lo ELSE IF a > hi THEN hi ELSE a

(***************************************************************************)
(* Tensor operations.                                                      *)
(***************************************************************************)
\* a tensor with its elements computed: the same sequence, evaluated once
Tensor(t) == t \o <<>>

\* t[:, c - 1] of a tensor of rank 2: shape (N,)
Column(rows, c) == Tensor([n \in 1..Len(rows) |-> rows[n][c]])

\* tf.expand_dims(t, 1) of a tensor of shape (N,): shape (N, 1)
ExpandDims1(t) == Tensor([n \in 1..Len(t) |-> <<t[n]>>])

\* tf.sin and tf.cos of a tensor of shape (N, 1)
SinOfTensor(t) ==
  Tensor([n \in 1..Len(t) |-> [i \in 1..Len(t[n]) |-> Sin(t[n][i])]])

CosOfTensor(t) ==
  Tensor([n \in 1..Len(t) |-> [i \in 1..Len(t[n]) |-> Cos(t[n][i])]])

\* tf.sqrt(1 - tf.square(t)) of a tensor of shape (N, 1)
SqrtOneMinusSquare(t) ==
  Tensor([n \in 1..Len(t) |->
            [i \in 1..Len(t[n]) |-> Sqrt(Unit - Square(t[n][i]))]])

\* tf.zeros_like and tf.ones_like of a tensor of shape (N, 1)
ZerosLike(t) == Tensor([n \in 1..Len(t) |-> [i \in 1..Len(t[n]) |-> 0]])

OnesLike(t) == Tensor([n \in 1..Len(t) |-> [i \in 1..Len(t[n]) |-> Unit]])

\* Neg with the sign lost
NegDropped(t) == t

\* the unary minus of a tensor of shape (N, 1)
Neg(t) == Tensor([n \in 1..Len(t) |-> [i \in 1..Len(t[n]) |-> 0 - t[n][i]]])

\* tf.stack([a, b, c], axis=2) of tensors of shape (N, 1): shape (N, 1, 3)
Stack2(a, b, c) ==
  Tensor([n \in 1..Len(a) |->
            Tensor([i \in 1..Len(a[n]) |-> <<a[n][i], b[n][i], c[n][i]>>])])

\* tf.concat([a, b, c], axis=1)
Concat1(a, b, c) == Tensor([n \in 1..Len(a) |-> a[n] \o b[n] \o c[n]])

\* row i of A times column j of B, rounded once
Dot(A, B, i, j) ==
  RoundDiv(A[i][1] * B[1][j] + A[i][2] * B[2][j] + A[i][3] * B[3][j], Unit)

\* the product of two 3 x 3 matrices
MatMul(A, B) ==
  << <<Dot(A, B, 1, 1), Dot(A, B, 1, 2), Dot(A, B, 1, 3)>>,
     <<Dot(A, B, 2, 1), Dot(A, B, 2, 2), Dot(A, B, 2, 3)>>,
     <<Dot(A, B, 3, 1), Dot(A, B, 3, 2), Dot(A, B, 3, 3)>> >>

\* the @ of two tensors of shape (N, 3, 3): one matrix product per element
BatchMatMul(A, B) == Tensor([n \in 1..Len(A) |-> MatMul(A[n], B[n])])

\* t[:, lo:hi] of a tensor of rank 2
Cols(t, lo, hi) == Tensor([n \in 1..Len(t) |-> SubSeq(t[n], lo + 1, hi)])

\* tf.concat([a, b], axis=1)
Concat1of2(a, b) == Tensor([n \in 1..Len(a) |-> a[n] \o b[n]])

\* a 3 x 3 matrix as a row of 9 values, row after row, and back
Flat9(M) == M[1] \o M[2] \o M[3]

Matrix33(r) == << <<r[1], r[2], r[3]>>, <<r[4], r[5], r[6]>>, <<r[7], r[8], r[9]>> >>

\* tf.reshape(t, [-1, 9]) of a tensor of shape (N, 3, 3)
ReshapeFlat9(t) == Tensor([n \in 1..Len(t) |-> Flat9(t[n])])

\* tf.reshape(t, [-1, 3, 3]) of a tensor of shape (N, 9)
Reshape33(t) == Tensor([n \in 1..Len(t) |-> Matrix33(t[n])])

Transpose3(M) ==
  << <<M[1][1], M[2][1], M[3][1]>>,
     <<M[1][2], M[2][2], M[3][2]>>,
     <<M[1][3], M[2][3], M[3][3]>> >>

\* tf.transpose(t, [0, 2, 1]) of a tensor of shape (N, 3, 3)
Transpose021(t) == Tensor([n \in 1..Len(t) |-> Transpose3(t[n])])

FirstRowSum(M) == M[1][1] + M[1][2] + M[1][3]

\* TraceFirstRow sums the first row instead of the diagonal
TraceFirstRow(t) == Tensor([n \in 1..Len(t) |-> FirstRowSum(t[n])])

Trace3(M) == M[1][1] + M[2][2] + M[3][3]

\* tf.trace of a tensor of shape (N, 3, 3): shape (N,)
Trace(t) == Tensor([n \in 1..Len(t) |-> Trace3(t[n])])

\* a - b of two tensors of rank 2
Sub2(a, b) ==
  Tensor([n \in 1..Len(a) |-> [i \in 1..Len(a[n]) |-> a[n][i] - b[n][i]]])

\* a + b of two tensors of rank 1
Add1(a, b) == Tensor([n \in 1..Len(a) |-> a[n] + b[n]])

\* the Euclidean norm of three values
Norm3(v) == RoundSqrt(v[1] * v[1] + v[2] * v[2] + v[3] * v[3])

\* tf.norm(t, axis=1) of a tensor of shape (N, 3): shape (N,)
Norm1(t) == Tensor([n \in 1..Len(t) |-> Norm3(t[n])])

\* tf.reshape(t, [-1, k]) of a tensor of shape (B, A, k): shape (B * A, k)
RECURSIVE ReshapeRows(_)
ReshapeRows(t) == IF t = <<>> THEN <<>> ELSE Head(t) \o ReshapeRows(Tail(t))

\* ReshapeBA filling the result column by column
ReshapeBAColumnMajor(v, batch_size, num_anchors) ==
  Tensor([b \in 1..batch_size |->
            [a \in 1..num_anchors |-> v[(a - 1) * batch_size + b]]])

\* tf.reshape(v, [batch_size, num_anchors]) of a tensor of shape (B * A,)
ReshapeBA(v, batch_size, num_anchors) ==
  Tensor([b \in 1..batch_size |->
            [a \in 1..num_anchors |-> v[(b - 1) * num_anchors + a]]])

\* a * b of two tensors of rank 2
Mul2(a, b) ==
  Tensor([n \in 1..Len(a) |-> [i \in 1..Len(a[n]) |-> Mul(a[n][i], b[n][i])]])

\* tf.zeros([n, 3])
Zeros3(n) == Tensor([i \in 1..n |-> <<0, 0, 0>>])

\* tf.check_numerics: TRUE when the tensor of shape (N, 1) passes
CheckNumerics(t) == \A n \in 1..Len(t) : \A i \in 1..Len(t[n]) : t[n][i] # NaN

(***************************************************************************)
(* euler_to_rot                                                            *)
(***************************************************************************)
\* a returned value with its shape
Ok(v, shape) == [status |-> "ok", value |-> v, shape |-> shape]

\* the exception check_numerics raises
InvalidArgumentError ==
  [status |-> "InvalidArgumentError", value |-> <<>>, shape |-> <<>>]

\* Compose with the factors in the order x, y, z
ComposeXYZ(rot_x, rot_y, rot_z) == BatchMatMul(BatchMatMul(rot_x, rot_y), rot_z)

\* rot_z @ rot_x @ rot_y
Compose(rot_x, rot_y, rot_z) == BatchMatMul(BatchMatMul(rot_z, rot_x), rot_y)

\* rot_x, rot_y and rot_z from the sine and cosine tensors of shape (N, 1)
RotX(sin_x, cos_x) ==
  Concat1(Stack2(OnesLike(sin_x), ZerosLike(sin_x), ZerosLike(sin_x)),
          Stack2(ZerosLike(sin_x), cos_x, Neg(sin_x)),
          Stack2(ZerosLike(sin_x), sin_x, cos_x))

RotY(sin_y, cos_y, sin_x) ==
  Concat1(Stack2(cos_y, ZerosLike(sin_x), sin_y),
          Stack2(ZerosLike(sin_x), OnesLike(sin_x), ZerosLike(sin_x)),
          Stack2(Neg(sin_y), ZerosLike(sin_x), cos_y))

RotZ(sin_z, cos_z, sin_x) ==
  Concat1(Stack2(cos_z, Neg(sin_z), ZerosLike(sin_x)),
          Stack2(sin_z, cos_z, ZerosLike(sin_x)),
          Stack2(ZerosLike(sin_x), ZerosLike(sin_x), OnesLike(sin_x)))

\* the rest of euler_to_rot once the sines and cosines are there
Rotations(sin_x, sin_y, sin_z, cos_x, cos_y, cos_z) ==
  Ok(Compose(RotX(sin_x, cos_x), RotY(sin_y, cos_y, sin_x), RotZ(sin_z, cos_z, sin_x)),
     <<Len(sin_x), 3, 3>>)

\* the sine_inputs branch: the three check_numerics, then the rest
CheckedRotations(sin_x, sin_y, sin_z, cos_x, cos_y, cos_z) ==
  IF CheckNumerics(cos_x) /\ CheckNumerics(cos_y) /\ CheckNumerics(cos_z)
  THEN Rotations(sin_x, sin_y, sin_z, cos_x, cos_y, cos_z)
  ELSE InvalidArgumentError

\* euler_to_rot on x, y, z after tf.expand_dims(., 1)
EulerOfExpanded(x, y, z, sine_inputs) ==
  IF sine_inputs
  THEN CheckedRotations(x, y, z, SqrtOneMinusSquare(x), SqrtOneMinusSquare(y),
                        SqrtOneMinusSquare(z))
  ELSE Rotations(SinOfTensor(x), SinOfTensor(y), SinOfTensor(z),
                 CosOfTensor(x), CosOfTensor(y), CosOfTensor(z))

\* x, y and z have the shape (N,) of the columns that
\* postprocess_detection_motions passes
euler_to_rot(x, y, z, sine_inputs) ==
  EulerOfExpanded(ExpandDims1(x), ExpandDims1(y), ExpandDims1(z), sine_inputs)

(***************************************************************************)
(* postprocess_detection_motions and _motion_losses                        *)
(***************************************************************************)
\* rot_flat and the concat of postprocess_detection_motions
FlatMotions(rot, pred) ==
  IF rot.status # "ok" THEN rot
  ELSE Ok(Concat1of2(ReshapeFlat9(rot.value), Cols(pred, 3, Len(pred[1]))),
          <<Len(pred), 9 + Len(pred[1]) - 3>>)

postprocess_detection_motions(pred) ==
  FlatMotions(euler_to_rot(Column(pred, 1), Column(pred, 2), Column(pred, 3), FALSE),
              pred)

\* tf.acos(tf.clip_by_value((tr - 1) / 2, -1, 1)) of a tensor of shape (N,)
ACosOfTrace(tr) ==
  Tensor([n \in 1..Len(tr) |->
            ACos(ClipByValue(RoundDiv(tr[n] - Unit, 2), 0 - Unit, Unit))])

\* err_angle of the rotations rot and gt_rot of shape (N, 3, 3)
AngleError(rot, gt_rot) ==
  ACosOfTrace(Trace(BatchMatMul(Transpose021(rot), gt_rot)))

\* the three errors of the postprocessed prediction and the target
MotionErrors(pred, target) ==
  [err_angle |-> AngleError(Reshape33(Cols(pred, 0, 9)), Reshape33(Cols(target, 0, 9))),
   err_trans |-> Norm1(Sub2(Cols(target, 9, 12), Cols(pred, 9, 12))),
   err_pivot |-> Norm1(Sub2(Cols(target, 12, 15), Cols(pred, 12, 15)))]

\* _motion_losses after its call of postprocess_detection_motions
LossesOfPostprocessed(post, target) ==
  IF post.status # "ok" THEN post
  ELSE Ok(MotionErrors(post.value, target), <<Len(target)>>)

_motion_losses(pred, target) ==
  LossesOfPostprocessed(postprocess_detection_motions(pred), target)

(***************************************************************************)
(* motion_loss and camera_motion_loss                                      *)
(***************************************************************************)
\* err_angle + err_trans + err_pivot
TotalError(errors) == Add1(Add1(errors.err_angle, errors.err_trans), errors.err_pivot)

\* motion_loss after its call of _motion_losses
WeightedLoss(losses, batch_size, num_anchors, weights) ==
  IF losses.status # "ok" THEN losses
  ELSE Ok(Mul2(ReshapeBA(TotalError(losses.value), batch_size, num_anchors), weights),
          <<batch_size, num_anchors>>)

motion_loss(pred, target, weights) ==
  WeightedLoss(_motion_losses(ReshapeRows(pred), ReshapeRows(target)),
               Len(pred), Len(pred[1]), weights)

\* camera_motion_loss after its call of _motion_losses
CameraLoss(losses) ==
  IF losses.status # "ok" THEN losses
  ELSE Ok(Add1(losses.value.err_angle, losses.value.err_trans), losses.shape)

camera_motion_loss(pred, target) ==
  CameraLoss(_motion_losses(Concat1of2(pred, Zeros3(Len(pred))),
                            Concat1of2(target, Zeros3(Len(pred)))))

(***************************************************************************)
(* get_3D_coords                                                           *)
(***************************************************************************)
\* tf.cast(tf.range(n), tf.float32)
RangeF(n) == Tensor([i \in 1..n |-> (i - 1) * Unit])

\* MeshgridX with the rows' coordinate in place of the columns'
MeshgridXFromYs(xs, ys) ==
  Tensor([i \in 1..Len(ys) |-> [j \in 1..Len(xs) |-> ys[i]]])

\* the two results of tf.meshgrid(xs, ys), each of shape (height, width)
MeshgridX(xs, ys) == Tensor([i \in 1..Len(ys) |-> [j \in 1..Len(xs) |-> xs[j]]])

MeshgridY(xs, ys) == Tensor([i \in 1..Len(ys) |-> [j \in 1..Len(xs) |-> ys[i]]])

\* tf.expand_dims(tf.expand_dims(t, 0), 3) of a tensor of shape (H, W)
ExpandDims03(t) ==
  <<[i \in 1..Len(t) |-> [j \in 1..Len(t[i]) |-> <<t[i][j]>>]]>>

\* t / f and t - c of a tensor of rank 4 and a scalar
DivScalar(t, f) ==
  [n \in 1..Len(t) |-> [i \in 1..Len(t[n]) |-> [j \in 1..Len(t[n][i]) |->
     [c \in 1..Len(t[n][i][j]) |-> Div(t[n][i][j][c], f)]]]]

SubScalar(t, v) ==
  [n \in 1..Len(t) |-> [i \in 1..Len(t[n]) |-> [j \in 1..Len(t[n][i]) |->
     [c \in 1..Len(t[n][i][j]) |-> t[n][i][j][c] - v]]]]

\* a * b, a of shape (1, H, W, 1) broadcast along b of shape (num, H, W, 1)
MulBroadcast(a, b) ==
  [n \in 1..Len(b) |-> [i \in 1..Len(b[n]) |-> [j \in 1..Len(b[n][i]) |->
     [c \in 1..Len(b[n][i][j]) |-> Mul(a[1][i][j][c], b[n][i][j][c])]]]]

\* tf.concat([X, Y, Z], axis=3)
Concat3(X, Y, Z) ==
  [n \in 1..Len(X) |-> [i \in 1..Len(X[n]) |-> [j \in 1..Len(X[n][i]) |->
     X[n][i][j] \o Y[n][i][j] \o Z[n][i][j]]]]

\* _pixels_to_3d and the concat, x and y being the expanded meshgrid
PixelsTo3D(x, y, d, f, x0, y0) ==
  Ok(Concat3(MulBroadcast(SubScalar(x, x0), DivScalar(d, f)),
             MulBroadcast(SubScalar(y, y0), DivScalar(d, f)),
             d),
     <<Len(d), Len(d[1]), Len(d[1][1]), 3>>)

\* get_3D_coords on depth, xs and ys
CoordsOfRanges(depth, xs, ys, camera_intrinsics) ==
  PixelsTo3D(ExpandDims03(MeshgridX(xs, ys)), ExpandDims03(MeshgridY(xs, ys)), depth,
             camera_intrinsics[1], camera_intrinsics[2], camera_intrinsics[3])

get_3D_coords(depth, camera_intrinsics) ==
  CoordsOfRanges(depth, RangeF(Len(depth[1][1])), RangeF(Len(depth[1])),
                 camera_intrinsics)

(***************************************************************************)
(* Inputs.                                                                 *)
(***************************************************************************)
\* raw angles in radians: 0, 0.6, -0.8, 2 and (to 1/Unit) pi/2, -pi/2, pi
RawAngles == {0, 300, 0 - 400, 1000, 785, 0 - 785, 1571}

\* angle sines: 0, 0.6, -0.6, 0.8, 1, -1 and, out of range, 1.2 and -2
Sines == {0, 300, 0 - 400, 500, 0 - 500, 600, 0 - 1000}

\* the second and later elements of a batch of angles
MoreRaw == <<<<0, 0, 0>>, <<785, 300, 0 - 785>>, <<500, 1571, 0 - 400>>>>

MoreSines == <<<<0, 0, 0>>, <<400, 0 - 300, 500>>, <<300, 600, 0>>>>

\* element k > 1 of a batch is entry r + k, counted round, of a list
Later(more, r, n) == [k \in 1..(n - 1) |-> more[((r + k) % Len(more)) + 1]]

AngleBatches(first, more) ==
  UNION {{<<f>> \o Later(more, r, n) :
            f \in first \X first \X first,
            r \in IF n = 1 THEN {0} ELSE 0..(Len(more) - 1)}
         : n \in 1..MaxN}

\* the first three values of a prediction row: 0, +-0.6, 0.8, 1 are sines in
\* range, 2 and 1.57 are not
PredAngles ==
  {<<0, 0, 0>>, <<300, 400, 0>>, <<0 - 300, 0, 400>>, <<0, 0, 500>>,
   <<1000, 0, 0>>, <<785, 0, 0 - 785>>}

InRange(a) == \A i \in 1..3 : Abs(a[i]) <= Unit

\* the rotation of three angle sines, and of three raw angles, flattened
SineRot(a) == ReshapeFlat9(euler_to_rot(<<a[1]>>, <<a[2]>>, <<a[3]>>, TRUE).value)[1]

RawRot(a) == ReshapeFlat9(euler_to_rot(<<a[1]>>, <<a[2]>>, <<a[3]>>, FALSE).value)[1]

IdentityFlat == <<Unit, 0, 0, 0, Unit, 0, 0, 0, Unit>>

\* the target rotations tried against the prediction angles a
TargetRots(a) ==
  {IdentityFlat, RawRot(a), SineRot(<<400, 0 - 300, 500>>)}
  \cup (IF InRange(a) THEN {SineRot(a)} ELSE {})

Vec3Add(u, v) == <<u[1] + v[1], u[2] + v[2], u[3] + v[3]>>

\* predicted translation and pivot, and target minus prediction of each: the
\* translations are 0 or 5 apart, the pivots 0 or 1
TransPivots ==
  {[t |-> <<0, 0, 0>>, dt |-> <<0, 0, 0>>, p |-> <<0, 0, 0>>, dp |-> <<0, 0, 0>>],
   [t |-> <<500, 1000, 0 - 500>>, dt |-> <<0, 0, 0>>,
    p |-> <<250, 0, 0>>, dp |-> <<0, 0, 0>>],
   [t |-> <<500, 1000, 0 - 500>>, dt |-> <<1500, 2000, 0>>,
    p |-> <<0, 0, 0>>, dp |-> <<0, 0, 0>>],
   [t |-> <<0, 0, 0>>, dt |-> <<0 - 1500, 0, 2000>>,
    p |-> <<250, 0, 0>>, dp |-> <<0, 300, 400>>]}

\* a prediction row of 9 values with a target row of 15
MotionPairs ==
  {[pred |-> ar[1] \o m.t \o m.p,
    target |-> ar[2] \o Vec3Add(m.t, m.dt) \o Vec3Add(m.p, m.dp)] :
     ar \in UNION {{<<a, r>> : r \in TargetRots(a)} : a \in PredAngles},
     m \in TransPivots}

\* the rows that follow the first in a batch, and the anchors of motion_loss
MotionSamples ==
  << [pred |-> <<0, 0, 0, 0, 0, 0, 0, 0, 0>>,
      target |-> IdentityFlat \o <<0, 0, 0, 0, 0, 0>>],
     [pred |-> <<300, 400, 0, 500, 0, 0, 0, 250, 0>>,
      target |-> SineRot(<<300, 400, 0>>) \o <<500, 0, 0, 0, 250, 0>>],
     [pred |-> <<0, 0 - 300, 500, 0, 0, 0, 250, 0, 0>>,
      target |-> RawRot(<<0, 0 - 300, 500>>) \o <<1500, 2000, 0, 250, 300, 400>>],
     [pred |-> <<1000, 0, 785, 0, 500, 0, 0, 0, 0>>,
      target |-> IdentityFlat \o <<0, 500, 0, 300, 0, 400>>] >>

NumSamples == Len(MotionSamples)

\* batches of 1..MaxN rows: any first row, the later rows out of MotionSamples
Batches(first) ==
  UNION {{<<f>> \o Later(MotionSamples, r, n) :
            f \in first, r \in IF n = 1 THEN {0} ELSE 0..(NumSamples - 1)}
         : n \in 1..MaxN}

PairBatches == Batches(MotionPairs)

\* the same with one first row for every prediction
PredBatches == Batches({CHOOSE q \in MotionPairs : q.pred = pr :
                          pr \in {q.pred : q \in MotionPairs}})

Preds(rows) == [n \in 1..Len(rows) |-> rows[n].pred]

Targets(rows) == [n \in 1..Len(rows) |-> rows[n].target]

\* anchor (b, a) holds sample base + sb * b + sa * a, counted round
AnchorGrid(batch_size, num_anchors, base, sb, sa) ==
  [b \in 1..batch_size |-> [a \in 1..num_anchors |->
     MotionSamples[((base + sb * (b - 1) + sa * (a - 1)) % NumSamples) + 1]]]

\* the anchor weights: 0, 1 and 2.5
WeightValues == <<0, Unit, 5 * (Unit \div 2)>>

WeightGrid(batch_size, num_anchors, base, sb, sa) ==
  [b \in 1..batch_size |-> [a \in 1..num_anchors |->
     WeightValues[((base + sb * (b - 1) + sa * (a - 1)) % Len(WeightValues)) + 1]]]

\* focal lengths 1 and 2, principal points on and between the pixels
FocalLengths == {Unit, 2 * Unit}

PrincipalXs == {0, Unit \div 2, Unit}

PrincipalYs == {0, Unit}

\* a depth map of shape (num, height, width, 1) that rises by dn, dy and dx
\* from image to image, row to row and column to column
DepthRamp(num, height, width, base, dn, dy, dx) ==
  [n \in 1..num |-> [i \in 1..height |-> [j \in 1..width |->
     <<base + dn * (n - 1) + dy * (i - 1) + dx * (j - 1)>>]]]

(***************************************************************************)
(* The calls.                                                              *)
(***************************************************************************)
Init ==
  /\ op = "none"
  /\ args = <<>>
  /\ ret = <<>>

\* a call: its name, its arguments and what it returns
Call(name, a, r) ==
  /\ op' = name
  /\ args' = a
  /\ ret' = r

EulerToRotOf(x, y, z, sine_inputs) ==
  Call("euler_to_rot", [x |-> x, y |-> y, z |-> z, sine_inputs |-> sine_inputs],
       euler_to_rot(x, y, z, sine_inputs))

CallEulerToRot ==
  /\ op = "none"
  /\ \E sine_inputs \in BOOLEAN :
       \E rows \in AngleBatches(IF sine_inputs THEN Sines ELSE RawAngles,
                                IF sine_inputs THEN MoreSines ELSE MoreRaw) :
          EulerToRotOf(Column(rows, 1), Column(rows, 2), Column(rows, 3), sine_inputs)

PostprocessOf(pred) ==
  Call("postprocess_detection_motions", [pred |-> pred],
       postprocess_detection_motions(pred))

CallPostprocessDetectionMotions ==
  /\ op = "none"
  /\ \E rows \in PredBatches : PostprocessOf(Preds(rows))

MotionLossesOf(pred, target) ==
  Call("_motion_losses", [pred |-> pred, target |-> target],
       _motion_losses(pred, target))

CallMotionLosses ==
  /\ op = "none"
  /\ \E rows \in PairBatches : MotionLossesOf(Preds(rows), Targets(rows))

MotionLossOf(pred, target, weights) ==
  Call("motion_loss", [pred |-> pred, target |-> target, weights |-> weights],
       motion_loss(pred, target, weights))

MotionLossOfGrid(grid, weights) ==
  MotionLossOf([b \in 1..Len(grid) |-> Preds(grid[b])],
               [b \in 1..Len(grid) |-> Targets(grid[b])], weights)

CallMotionLoss ==
  /\ op = "none"
  /\ \E batch_size \in 1..MaxBatch, num_anchors \in 1..MaxAnchors :
       \E base, sb, sa \in 0..(NumSamples - 1) :
          \E wbase, wb \in 0..(Len(WeightValues) - 1) :
             MotionLossOfGrid(AnchorGrid(batch_size, num_anchors, base, sb, sa),
                              WeightGrid(batch_size, num_anchors, wbase, wb, 1))

CameraMotionLossOf(pred, target) ==
  Call("camera_motion_loss", [pred |-> pred, target |-> target],
       camera_motion_loss(pred, target))

CallCameraMotionLoss ==
  /\ op = "none"
  /\ \E rows \in PairBatches :
       CameraMotionLossOf(Cols(Preds(rows), 0, 6), Cols(Targets(rows), 0, 12))

Get3DCoordsOf(depth, camera_intrinsics) ==
  Call("get_3D_coords", [depth |-> depth, camera_intrinsics |-> camera_intrinsics],
       get_3D_coords(depth, camera_intrinsics))

CallGet3DCoords ==
  /\ op = "none"
  /\ \E num \in 1..MaxNum, height \in 1..MaxHeight, width \in 1..MaxWidth :
       \E f \in FocalLengths, x0 \in PrincipalXs, y0 \in PrincipalYs :
          \E base \in {Unit, 3 * Unit}, dn, dy, dx \in {0, Unit} :
             Get3DCoordsOf(DepthRamp(num, height, width, base, dn, 2 * dy, 4 * dx),
                           <<f, x0, y0>>)

\* the call is over: its tensors live no longer than the call
Return ==
  /\ op # "none"
  /\ op' = "none"
  /\ args' = <<>>
  /\ ret' = <<>>

Next ==
  \/ CallEulerToRot
  \/ CallPostprocessDetectionMotions
  \/ CallMotionLosses
  \/ CallMotionLoss
  \/ CallCameraMotionLoss
  \/ CallGet3DCoords
  \/ Return

Spec == Init /\ [][Next]_vars

(***************************************************************************)
(* Properties of euler_to_rot.                                             *)
(***************************************************************************)
EulerCall == op = "euler_to_rot"

SomeSineOutOfRange ==
  \E n \in 1..Len(args.x) :
    Abs(args.x[n]) > Unit \/ Abs(args.y[n]) > Unit \/ Abs(args.z[n]) > Unit

\* C3: a call euler_to_rot(x, y, z, sine_inputs=True) fails the numerical
\* check and returns no matrix exactly when some element of x, y or z has an
\* absolute value above 1.
C3_OutOfRangeSineIsFlagged ==
  (EulerCall /\ args.sine_inputs) =>
     /\ SomeSineOutOfRange => (ret = InvalidArgumentError)
     /\ ~SomeSineOutOfRange => (ret.status = "ok")

C3_Witness ==
  /\ EulerCall /\ args.sine_inputs
  /\ SomeSineOutOfRange
  /\ \E n \in 1..Len(args.x) : Abs(args.x[n]) <= Unit /\ Abs(args.y[n]) > Unit
  /\ ret.status = "InvalidArgumentError"

\* the sine and the cosine euler_to_rot uses for one input value
SinOf(a) == IF args.sine_inputs THEN a ELSE Sin(a)

CosOf(a) == IF args.sine_inputs THEN Sqrt(Unit - Square(a)) ELSE Cos(a)

Rx(s, c) == <<<<Unit, 0, 0>>, <<0, c, 0 - s>>, <<0, s, c>>>>

Ry(s, c) == <<<<c, 0, s>>, <<0, Unit, 0>>, <<0 - s, 0, c>>>>

Rz(s, c) == <<<<c, 0 - s, 0>>, <<s, c, 0>>, <<0, 0, Unit>>>>

\* Rz . Rx . Ry of element n's own angles
ProductZXY(n) ==
  MatMul(MatMul(Rz(SinOf(args.z[n]), CosOf(args.z[n])),
                Rx(SinOf(args.x[n]), CosOf(args.x[n]))),
         Ry(SinOf(args.y[n]), CosOf(args.y[n])))

\* the entries of Rz . Rx . Ry written out
ClosedFormZXY(sx, cx, sy, cy, sz, cz) ==
  <<<<Mul(cz, cy) - Mul(Mul(sz, sx), sy), 0 - Mul(sz, cx),
      Mul(cz, sy) + Mul(Mul(sz, sx), cy)>>,
    <<Mul(sz, cy) + Mul(Mul(cz, sx), sy), Mul(cz, cx),
      Mul(sz, sy) - Mul(Mul(cz, sx), cy)>>,
    <<0 - Mul(cx, sy), sx, Mul(cx, cy)>>>>

\* a sine or cosine that is a whole number of fifths: products of three are exact
Fifths(v) == v % (Unit \div 5) = 0

ExactElement(n) ==
  \A a \in {args.x[n], args.y[n], args.z[n]} : Fifths(SinOf(a)) /\ Fifths(CosOf(a))

\* C5: every element of the result is Rz . Rx . Ry, in that order, of the
\* sines and cosines of that element's own x, y and z, in both input modes.
C5_ResultIsRzRxRy ==
  (EulerCall /\ ret.status = "ok") =>
     /\ Len(ret.value) = Len(args.x)
     /\ \A n \in 1..Len(args.x) :
          /\ ret.value[n] = ProductZXY(n)
          /\ ExactElement(n) =>
               ret.value[n] = ClosedFormZXY(
                  SinOf(args.x[n]), CosOf(args.x[n]), SinOf(args.y[n]),
                  CosOf(args.y[n]), SinOf(args.z[n]), CosOf(args.z[n]))

C5_Witness ==
  /\ EulerCall /\ ret.status = "ok"
  /\ Len(args.x) = 2
  /\ \A n \in 1..2 : ExactElement(n) /\ args.x[n] # 0 /\ args.y[n] # 0 /\ args.z[n] # 0
  /\ ret.value[1] # ret.value[2]

\* R^T R, unrounded: in units of 1 / Unit^2
Gram(R) == [i \in 1..3 |-> [j \in 1..3 |->
              R[1][i] * R[1][j] + R[2][i] * R[2][j] + R[3][i] * R[3][j]]]

\* det R, unrounded: in units of 1 / Unit^3
Det(R) ==
    R[1][1] * (R[2][2] * R[3][3] - R[2][3] * R[3][2])
  - R[1][2] * (R[2][1] * R[3][3] - R[2][3] * R[3][1])
  + R[1][3] * (R[2][1] * R[3][2] - R[2][2] * R[3][1])

Identity(one) == <<<<one, 0, 0>>, <<0, one, 0>>, <<0, 0, one>>>>

\* one hundredth, in units of 1 / Unit^2
Hundredth == (Unit * Unit) \div 100

\* C6: every returned matrix is a proper rotation, R^T R = I and det R = 1:
\* exactly so for the inputs whose sines and cosines are exact, and to one
\* hundredth for the raw angles whose sines and cosines are rounded.
C6_ProperRotation ==
  (EulerCall /\ ret.status = "ok") =>
     \A n \in 1..Len(args.x) :
        /\ ExactElement(n) =>
             /\ Gram(ret.value[n]) = Identity(Unit * Unit)
             /\ Det(ret.value[n]) = Unit * Unit * Unit
        /\ \A i, j \in 1..3 :
             Abs(Gram(ret.value[n])[i][j] - Identity(Unit * Unit)[i][j]) <= Hundredth
        /\ Abs(Det(ret.value[n]) - Unit * Unit * Unit) <= Hundredth * Unit

C6_Witness ==
  /\ EulerCall /\ ret.status = "ok" /\ ~args.sine_inputs
  /\ ExactElement(1)
  /\ args.x[1] # 0 /\ args.y[1] # 0 /\ args.z[1] # 0
  /\ ret.value[1] # Identity(Unit)

(***************************************************************************)
(* Properties of the motion losses.                                        *)
(***************************************************************************)
PostprocessCall == op = "postprocess_detection_motions"

LossesCall == op = "_motion_losses"

LossCall == op = "motion_loss"

Angles(row) == SubSeq(row, 1, 3)

\* the prediction row encodes the motion of the target row: the target rotation
\* is the matrix of the row's angle sines, translation and pivot are the same
SameMotion(pred_row, target_row) ==
  /\ InRange(Angles(pred_row))
  /\ target_row = SineRot(Angles(pred_row)) \o SubSeq(pred_row, 4, 9)

\* C1: an anchor whose prediction encodes the rotation, translation and pivot
\* of its target has angle, translation and pivot error 0 in _motion_losses
\* and loss 0 in motion_loss, whatever its weight.
C1_ZeroLossWhenPredictionEqualsTarget ==
  /\ LossesCall =>
       \A n \in 1..Len(args.pred) :
          SameMotion(args.pred[n], args.target[n]) =>
             /\ ret.value.err_angle[n] = 0
             /\ ret.value.err_trans[n] = 0
             /\ ret.value.err_pivot[n] = 0
  /\ LossCall =>
       \A b \in 1..Len(args.pred) : \A a \in 1..Len(args.pred[b]) :
          SameMotion(args.pred[b][a], args.target[b][a]) => ret.value[b][a] = 0

\* euler_to_rot(s_x, s_y, s_z, sine_inputs=True) of the rows of a prediction
RotationOfSines(pred) ==
  euler_to_rot(Column(pred, 1), Column(pred, 2), Column(pred, 3), TRUE)

\* C2: the first three values of every prediction row are used as angle
\* sines: the rotation that postprocess_detection_motions returns, and that
\* _motion_losses compares with the target, is euler_to_rot(s_x, s_y, s_z,
\* sine_inputs=True).
C2_PredictedRotationIsBuiltFromSines ==
  /\ PostprocessCall =>
       /\ ret.status = RotationOfSines(args.pred).status
       /\ ret.status = "ok" =>
            Cols(ret.value, 0, 9) = ReshapeFlat9(RotationOfSines(args.pred).value)
  /\ LossesCall =>
       /\ ret.status = RotationOfSines(args.pred).status
       /\ ret.status = "ok" =>
            ret.value.err_angle = AngleError(RotationOfSines(args.pred).value,
                                             Reshape33(Cols(args.target, 0, 9)))

\* the prediction rows with their first three values clamped to [-1, 1]
ClipAngles(pred) ==
  [n \in 1..Len(pred) |-> [i \in 1..Len(pred[n]) |->
     IF i <= 3 THEN ClipByValue(pred[n][i], 0 - Unit, Unit) ELSE pred[n][i]]]

\* C4: postprocess_detection_motions builds the rotation from the predicted
\* values clamped to [-1, 1]: a value outside gives the rotation of the
\* nearest bound.
C4_AngleSinesAreClamped ==
  PostprocessCall =>
     Cols(ret.value, 0, 9)
       = Cols(postprocess_detection_motions(ClipAngles(args.pred)).value, 0, 9)

\* the predicted and the target rotations of a call of _motion_losses
PredRot == Reshape33(Cols(postprocess_detection_motions(args.pred).value, 0, 9))

GtRot == Reshape33(Cols(args.target, 0, 9))

\* C7, as amended: the angular error of _motion_losses is the same with the
\* predicted and the target rotation swapped, for every pair of rotations.
C7_AngleErrorIsSymmetric ==
  LossesCall =>
     /\ ret.value.err_angle = AngleError(PredRot, GtRot)
     /\ ret.value.err_angle = AngleError(GtRot, PredRot)

C7_Witness ==
  /\ LossesCall
  /\ PredRot[1] # Identity(Unit) /\ GtRot[1] # Identity(Unit)
  /\ PredRot[1] # GtRot[1]
  /\ ret.value.err_angle[1] > 0
  /\ ret.value.err_angle[1] = AngleError(GtRot, PredRot)[1]

\* C7: the angular error is the same with the predicted and the target
\* rotation swapped only in the zero-rotation case, both being the identity.
C7_SymmetricOnlyForZeroRotation ==
  LossesCall =>
     \A n \in 1..Len(args.pred) :
        AngleError(PredRot, GtRot)[n] = AngleError(GtRot, PredRot)[n]
          => (PredRot[n] = Identity(Unit) /\ GtRot[n] = Identity(Unit))

ErrorSum(own) == own.err_angle[1] + own.err_trans[1] + own.err_pivot[1]

\* the three errors of one anchor's own prediction and target, summed
OwnError(b, a) ==
  ErrorSum(_motion_losses(<<args.pred[b][a]>>, <<args.target[b][a]>>).value)

\* C8: motion_loss(pred, target, weights)[b][a] is the sum of the three errors
\* of anchor (b, a)'s own prediction and target, times weights[b][a]; the
\* result has the shape [batch_size, num_anchors], and a weight of 0 gives 0.
C8_LossIsOwnErrorTimesWeight ==
  LossCall =>
     /\ ret.shape = <<Len(args.pred), Len(args.pred[1])>>
     /\ Len(ret.value) = Len(args.pred)
     /\ \A b \in 1..Len(args.pred) :
          /\ Len(ret.value[b]) = Len(args.pred[b])
          /\ \A a \in 1..Len(args.pred[b]) :
               /\ ret.value[b][a] = Mul(OwnError(b, a), args.weights[b][a])
               /\ args.weights[b][a] = 0 => ret.value[b][a] = 0

C8_Witness ==
  /\ LossCall
  /\ Len(args.pred) = 2 /\ Len(args.pred[1]) = 2
  /\ OwnError(1, 2) # OwnError(2, 1)
  /\ OwnError(1, 2) > 0 /\ OwnError(2, 1) > 0
  /\ args.weights[1][2] > 0 /\ args.weights[2][1] > 0
  /\ args.weights[1][2] # args.weights[2][1]
  /\ args.weights[1][1] = 0 /\ OwnError(1, 1) > 0 /\ ret.value[1][1] = 0

\* C9: camera_motion_loss returns a scalar, a tensor of rank 0, for every
\* batch_size >= 1.
C9_CameraLossIsScalar ==
  (op = "camera_motion_loss" /\ ret.status = "ok") => ret.shape = <<>>

(***************************************************************************)
(* Properties of get_3D_coords.                                            *)
(***************************************************************************)
CoordsCall == op = "get_3D_coords"

\* C10: the output at [n, y, x] is ((x - x0) * d / f, (y - y0) * d / f, d),
\* x counting the columns and y the rows, d the depth at [n, y, x]; at the
\* principal point it is (0, 0, d).
C10_PinholeBackProjection ==
  CoordsCall =>
     LET f == args.camera_intrinsics[1]
         x0 == args.camera_intrinsics[2]
         y0 == args.camera_intrinsics[3]
     IN  /\ ret.shape = <<Len(args.depth), Len(args.depth[1]),
                          Len(args.depth[1][1]), 3>>
         /\ \A n \in 1..Len(args.depth) :
              \A y \in 1..Len(args.depth[n]) :
                 \A x \in 1..Len(args.depth[n][y]) :
                    LET d == args.depth[n][y][x][1]
                        XYZ == ret.value[n][y][x]
                    IN  /\ Len(XYZ) = 3
                        /\ XYZ[1] * f = ((x - 1) * Unit - x0) * d
                        /\ XYZ[2] * f = ((y - 1) * Unit - y0) * d
                        /\ XYZ[3] = d
                        /\ ((x - 1) * Unit = x0 /\ (y - 1) * Unit = y0)
                             => XYZ = <<0, 0, d>>

C10_Witness ==
  /\ CoordsCall
  /\ Len(args.depth) = 2 /\ Len(args.depth[1]) = 2 /\ Len(args.depth[1][1]) = 2
  /\ args.camera_intrinsics = <<2 * Unit, Unit, 0>>
  /\ ret.value[2][1][2] = <<0, 0, args.depth[2][1][2][1]>>
  /\ ret.value[2][2][1][1] < 0 /\ ret.value[2][2][1][2] > 0
  /\ ret.value[2][2][1] # ret.value[1][2][1]

====
